---- MODULE Spec2Model ----
(***************************************************************************)
(* Feldman verifiable secret sharing (rust_vss): the pure VSS algorithms   *)
(* of vss.rs, the Dealer of dealer.rs, the Player actor of player.rs and   *)
(* the driver of main.rs.                                                  *)
(***************************************************************************)
EXTENDS Integers, Sequences, FiniteSets, TLC

(***************************************************************************)
(* Bounds of the model.                                                    *)
(***************************************************************************)
MaxN == 4
MaxT == 3
MaxQ == 5
MaxK == 2
MaxPlayers == 3
MaxRounds == 2
MaxDiv == 7

VARIABLES
    \* ---- inputs and results of the pure algorithms (vss.rs, dealer.rs)
    fld,        \* field parameters [p, q, g]
    a,          \* polynomial coefficients a_0..a_{t-1} handed to vss.rs
    n,          \* number of shares asked for
    shares,     \* result of generate_shares
    c,          \* result of generate_commitments
    checked,    \* the share last handed to verify_share, with the verdict
    picked,     \* the arguments last handed to reconstruct or div_mod_p
    out,        \* the value reconstruct returned
    dealer,     \* the Dealer struct built by Dealer::new (or None)
    vpc,        \* which algorithm ran last
    \* ---- the players (player.rs), one entry per player id
    ppc,              \* "unborn", "running" (in the loop of start) or "done"
    mailbox,          \* rx: the messages sent to the player, oldest first
    senders,          \* self.senders: peer id -> handle (the player it leads to)
    share_info,       \* self.share_info
    reconstruct_send, \* the pending result channel
    senders_shares,   \* the accumulator: sender id -> share
    \* ---- result channels (Sender<usize> / Receiver<usize>)
    results,    \* channel -> the values sent on it, oldest first
    \* ---- the driver (main.rs)
    mpc,        \* main's position
    mid,        \* the loop variable id
    mk,         \* the position in the loop over registered
    registered, \* the ids pushed to registered
    \* ---- history
    round,      \* the number of reconstruction requests made so far
    trig,       \* the number of those whose trigger the player has been sent
    sent_on     \* channel -> the number of values sent on it so far

vvars == <<fld, a, n, shares, c, checked, picked, out, dealer, vpc>>

pvars == <<ppc, mailbox, senders, share_info, reconstruct_send, senders_shares,
           results, round, trig, sent_on>>

mvars == <<mpc, mid, mk, registered>>

vars == <<vvars, pvars, mvars>>

\* Option<T>: None is the empty sequence, Some(x) the one-element sequence
None == <<>>

Some(x) == <<x>>

(***************************************************************************)
(* Arbitrary precision integer arithmetic as num_bigint does it: `/` and   *)
(* `%` on BigInt truncate towards zero, the remainder has the sign of the  *)
(* dividend.                                                               *)
(***************************************************************************)
Abs(x) == IF x < 0 THEN -x ELSE x

TruncDiv(x, y) ==
    IF (x < 0) = (y < 0) THEN Abs(x) \div Abs(y) ELSE -(Abs(x) \div Abs(y))

TruncRem(x, y) == x - y * TruncDiv(x, y)

RECURSIVE Pow(_, _)
Pow(b, e) == IF e = 0 THEN 1 ELSE b * Pow(b, e - 1)

RECURSIVE ModPow(_, _, _)
ModPow(b, e, m) ==
    IF e = 0 THEN 1 % m
    ELSE LET h == ModPow(b, e \div 2, m)
         IN IF e % 2 = 0 THEN (h * h) % m ELSE (h * h * b) % m

(***************************************************************************)
(* vss.rs                                                                  *)
(***************************************************************************)
RECURSIVE PolySum(_, _, _)
PolySum(coef, x, i) ==
    IF i > Len(coef) THEN 0
    ELSE coef[i] * Pow(x, i - 1) + PolySum(coef, x, i + 1)

eval_poly_at(coef, x) == PolySum(coef, x, 1)

generate_shares_FromZero(coef, cnt, q) ==
    [i \in 1..cnt |-> <<i - 1, eval_poly_at(coef, i - 1) % q>>]

generate_shares(coef, cnt, q) ==
    [i \in 1..cnt |-> <<i, eval_poly_at(coef, i) % q>>]

RECURSIVE VerifyLoop(_, _, _, _, _)
VerifyLoop(i, cs, p, j, check) ==
    IF j > Len(cs) THEN check
    ELSE VerifyLoop(i, cs, p, j + 1,
                    (check * ModPow(cs[j], Pow(i, j - 1), p)) % p)

RECURSIVE VerifyLoopMulExp(_, _, _, _, _)
VerifyLoopMulExp(i, cs, p, j, check) ==
    IF j > Len(cs) THEN check
    ELSE VerifyLoopMulExp(i, cs, p, j + 1,
                          (check * ModPow(cs[j], i * (j - 1), p)) % p)

verify_share_MulExp(i, s, g, cs, p) ==
    ModPow(g, s, p) = VerifyLoopMulExp(i, cs, p, 1, 1)

verify_share_ConstTermOnly(i, s, g, cs, p) ==
    ModPow(g, s, p) = VerifyLoop(i, <<cs[1]>>, p, 1, 1)

verify_share(i, s, g, cs, p) ==
    LET share_check == ModPow(g, s, p)
        check == VerifyLoop(i, cs, p, 1, 1)
    IN share_check = check

generate_commitments(coef, g, p) ==
    [k \in 1..Len(coef) |-> ModPow(g, coef[k], p)]

RECURSIVE EuclidLoop(_, _, _, _)
EuclidLoop(t_0, t_1, r_0, r_1) ==
    IF r_1 = 0 THEN t_0
    ELSE LET qt == TruncDiv(r_0, r_1)
         IN EuclidLoop(t_1, t_0 - qt * t_1, r_1, r_0 - qt * r_1)

div_mod_p_NoInputNorm(x, b, m) ==
    LET t0 == EuclidLoop(0, 1, m, b)
        tn == IF t0 < 0 THEN t0 + m ELSE t0
    IN x * tn

div_mod_p_NoOutputNorm(x, b, m) ==
    LET bn == IF b < 0 THEN TruncRem(b, m) + m ELSE b
    IN x * EuclidLoop(0, 1, m, bn)

div_mod_p(x, b, m) ==
    LET bn == IF b < 0 THEN TruncRem(b, m) + m ELSE b
        t0 == EuclidLoop(0, 1, m, bn)
        tn == IF t0 < 0 THEN t0 + m ELSE t0
    IN x * tn

RECURSIVE LagrangeProd(_, _, _, _, _)
LagrangeProd(shs, x_j, q, m, prod) ==
    IF m > Len(shs) THEN prod
    ELSE LET x_m == shs[m][1]
         IN LagrangeProd(shs, x_j, q, m + 1,
                IF x_m # x_j
                THEN TruncRem(prod * div_mod_p(x_m, x_m - x_j, q), q)
                ELSE prod)

RECURSIVE ReconstructLoop(_, _, _, _)
ReconstructLoop(shs, q, j, secret) ==
    IF j > Len(shs) THEN secret
    ELSE ReconstructLoop(shs, q, j + 1,
            TruncRem(secret + shs[j][2] * LagrangeProd(shs, shs[j][1], q, 1, 1), q))

RECURSIVE ReconstructLoopFromJ(_, _, _, _)
ReconstructLoopFromJ(shs, q, j, secret) ==
    IF j > Len(shs) THEN secret
    ELSE ReconstructLoopFromJ(shs, q, j + 1,
            TruncRem(secret
                     + shs[j][2] * LagrangeProd(shs, shs[j][1], q, j + 1, 1), q))

reconstruct_InnerFromJ(shs, q) == ReconstructLoopFromJ(shs, q, 1, 0)

reconstruct(shs, q) == ReconstructLoop(shs, q, 1, 0)

(***************************************************************************)
(* dealer.rs                                                               *)
(***************************************************************************)
IsPrime(x) == x >= 2 /\ \A d \in 2..(x - 1) : x % d # 0

\* Generator::new_prime: some prime of the configured width
new_prime == {q \in 2..MaxQ : IsPrime(q)}

\* find_p: k*q + 1 for a random k, retried until it is prime
find_p(q) == {p \in {k * q + 1 : k \in 1..MaxK} : IsPrime(p)}

\* find_g: b^((p-1)/q) mod p for a random b in [2, p-1)
find_g(p, q) == {ModPow(b, (p - 1) \div q, p) : b \in 2..(p - 2)}

gen_c(coef, g, p) == [k \in 1..Len(coef) |-> ModPow(g, coef[k], p)]

gen_shares(coef, cnt, q) ==
    [i \in 1..cnt |-> <<i, eval_poly_at(coef, i) % q>>]

\* [vec![secret], vec![gen_a(q); t - 1]].concat(): gen_a is evaluated once
\* and its value r is repeated t - 1 times
dealer_poly(secret, r, t) == <<secret>> \o [k \in 1..(t - 1) |-> r]

Fields ==
    {[p |-> p, q |-> q, g |-> g] : p \in 2..(MaxK * MaxQ + 1), q \in 2..MaxQ,
                                  g \in 1..(MaxK * MaxQ + 1)}

FieldParams ==
    {f \in Fields : f.q \in new_prime /\ f.p \in find_p(f.q)
                    /\ f.g \in find_g(f.p, f.q)}

Coefs(q) == UNION {[1..t -> 0..(q - 1)] : t \in 1..MaxT}

(***************************************************************************)
(* rpc.rs: the messages.  A Sender<RPC> is modelled by the id of the       *)
(* player whose mailbox it leads to, a Sender<usize> by its channel.  rnd  *)
(* is history: the Reconstruct trigger a share was broadcast for.          *)
(***************************************************************************)
Players == 1..MaxPlayers

Channels == 1..MaxRounds

Ping(id) == [type |-> "Ping", id |-> id]

RegSender(id, to) == [type |-> "RegSender", id |-> id, to |-> to]

RegShare(info) == [type |-> "RegShare", info |-> info]

ReconstructShare(id, share, rnd) ==
    [type |-> "ReconstructShare", id |-> id, share |-> share, rnd |-> rnd]

\* where a reconstructed value goes when reconstruct_send is None
Nowhere == 0

Reconstruct(ch) == [type |-> "Reconstruct", ch |-> ch]

ShareInfo(share, g, cs, p, q, t) ==
    [share |-> share, g |-> g, c |-> cs, p |-> p, q |-> q, t |-> t]

(***************************************************************************)
(* player.rs                                                               *)
(***************************************************************************)
NoEntries == [id \in Players |-> None]

\* Player::new, before the thread is spawned
NoPlayers ==
    /\ ppc = [i \in Players |-> "unborn"]
    /\ mailbox = [i \in Players |-> <<>>]
    /\ senders = [i \in Players |-> NoEntries]
    /\ share_info = [i \in Players |-> None]
    /\ reconstruct_send = [i \in Players |-> None]
    /\ senders_shares = [i \in Players |-> NoEntries]
    /\ results = [ch \in Channels |-> <<>>]
    /\ round = 0
    /\ trig = 0
    /\ sent_on = [ch \in Channels \cup {Nowhere} |-> 0]

MainIdle ==
    /\ mpc = "idle"
    /\ mid = 0
    /\ mk = 0
    /\ registered = <<>>

Keys(map) == {id \in Players : map[id] # None}

\* Sender::send: the message is queued unless the receiver is gone, in which
\* case send returns Err and the message is lost
SendAll(mb, cnt, msg) ==
    [j \in Players |->
        IF ppc[j] = "running"
        THEN mb[j] \o [k \in 1..cnt[j] |-> msg]
        ELSE mb[j]]

broadcast_StopAtErr(i, mb, msg) ==
    SendAll(mb, [j \in Players |->
                    Cardinality({id \in Players :
                        /\ senders[i][id] = Some(j)
                        /\ \A k \in 1..id :
                              senders[i][k] # None
                              => ppc[senders[i][k][1]] = "running"})], msg)

\* Player::broadcast: one send for every entry of self.senders
broadcast(i, mb, msg) ==
    SendAll(mb, [j \in Players |->
                    Cardinality({id \in Players : senders[i][id] = Some(j)})], msg)

\* `return` inside start: the thread ends and the Player is dropped, its
\* receiver (and the messages still queued in it) with it
Returns(i, mb) ==
    /\ ppc' = [ppc EXCEPT ![i] = "done"]
    /\ mailbox' = [mb EXCEPT ![i] = <<>>]

(***************************************************************************)
(* The arms of the match in Player::start.  Player i, in its loop, has     *)
(* received m; mb are the mailboxes without m and res the result channels, *)
(* as they stand when the arm runs.                                        *)
(***************************************************************************)
HandlePing(i, m, mb, res) ==
    /\ ppc[i] = "running"
    /\ m.type = "Ping"
    /\ mailbox' = mb
    /\ results' = res
    /\ UNCHANGED <<ppc, senders, share_info, reconstruct_send, senders_shares,
                   sent_on>>

HandleRegSender_KeepFirst(i, m, mb, res) ==
    /\ ppc[i] = "running"
    /\ m.type = "RegSender"
    /\ senders' = IF senders[i][m.id] = None
                  THEN [senders EXCEPT ![i][m.id] = Some(m.to)]
                  ELSE senders
    /\ mailbox' = mb
    /\ results' = res
    /\ UNCHANGED <<ppc, share_info, reconstruct_send, senders_shares, sent_on>>

HandleRegSender(i, m, mb, res) ==
    /\ ppc[i] = "running"
    /\ m.type = "RegSender"
    /\ senders' = [senders EXCEPT ![i][m.id] = Some(m.to)]
    /\ mailbox' = mb
    /\ results' = res
    /\ UNCHANGED <<ppc, share_info, reconstruct_send, senders_shares, sent_on>>

HandleRegShare_StoreUnverified(i, m, mb, res) ==
    /\ ppc[i] = "running"
    /\ m.type = "RegShare"
    /\ share_info' = [share_info EXCEPT ![i] = Some(m.info)]
    /\ mailbox' = mb
    /\ results' = res
    /\ UNCHANGED <<ppc, senders, reconstruct_send, senders_shares, sent_on>>

HandleRegShare(i, m, mb, res) ==
    /\ ppc[i] = "running"
    /\ m.type = "RegShare"
    /\ LET info == m.info
           is_verified ==
               verify_share(info.share[1], info.share[2], info.g, info.c, info.p)
       IN IF ~is_verified
          THEN /\ Returns(i, mb)
               /\ UNCHANGED share_info
          ELSE /\ share_info' = [share_info EXCEPT ![i] = Some(info)]
               /\ mailbox' = mb
               /\ UNCHANGED ppc
    /\ results' = res
    /\ UNCHANGED <<senders, reconstruct_send, senders_shares, sent_on>>

\* the orders in which HashMap::values can yield the entries of acc
ValueOrders(acc) ==
    {o \in [1..Cardinality(Keys(acc)) -> Keys(acc)] :
        \A j, k \in DOMAIN o : j # k => o[j] # o[k]}

\* the shares of acc in the order o
ValuesIn(acc, o) == [k \in DOMAIN o |-> acc[o[k]][1].share]

\* reconstruct_send.take() and s.send(secret): the value goes to the pending
\* channel, if there is one
Deliver(i, res, secret, acc) ==
    IF reconstruct_send[i] # None
    THEN [res EXCEPT ![reconstruct_send[i][1]] =
                Append(@, [val |-> secret, by |-> i, of |-> acc])]
    ELSE res

Cleared_Kept(i, acc) == [senders_shares EXCEPT ![i] = acc]

\* senders_shares.clear()
Cleared(i, acc) == [senders_shares EXCEPT ![i] = NoEntries]

HandleReconstructShare_KeepUntilAsked(i, m, mb, res) ==
    /\ ppc[i] = "running"
    /\ m.type = "ReconstructShare"
    /\ IF share_info[i] = None
       THEN /\ mailbox' = mb
            /\ results' = res
            /\ UNCHANGED <<ppc, reconstruct_send, senders_shares, sent_on>>
       ELSE LET info == share_info[i][1]
            IN
       IF ~verify_share(m.share[1], m.share[2], info.g, info.c, info.p)
       THEN /\ Returns(i, mb)
            /\ results' = res
            /\ UNCHANGED <<reconstruct_send, senders_shares, sent_on>>
       ELSE LET acc == [senders_shares[i] EXCEPT
                           ![m.id] = Some([share |-> m.share, rnd |-> m.rnd])]
            IN /\ mailbox' = mb
               /\ UNCHANGED ppc
               /\ IF Cardinality(Keys(acc)) >= info.t
                  THEN /\ \E o \in ValueOrders(acc) :
                            results' =
                                Deliver(i, res,
                                        reconstruct(ValuesIn(acc, o), info.q), acc)
                       /\ sent_on' =
                            IF reconstruct_send[i] # None
                            THEN [sent_on EXCEPT ![reconstruct_send[i][1]] = @ + 1]
                            ELSE [sent_on EXCEPT ![Nowhere] = 1]
                       /\ reconstruct_send' = [reconstruct_send EXCEPT ![i] = None]
                       /\ senders_shares' =
                            IF reconstruct_send[i] # None
                            THEN Cleared(i, acc)
                            ELSE [senders_shares EXCEPT ![i] = acc]
                  ELSE /\ senders_shares' = [senders_shares EXCEPT ![i] = acc]
                       /\ results' = res
                       /\ UNCHANGED <<reconstruct_send, sent_on>>
    /\ UNCHANGED <<senders, share_info>>

HandleReconstructShare(i, m, mb, res) ==
    /\ ppc[i] = "running"
    /\ m.type = "ReconstructShare"
    /\ IF share_info[i] = None
       THEN /\ mailbox' = mb
            /\ results' = res
            /\ UNCHANGED <<ppc, reconstruct_send, senders_shares, sent_on>>
       ELSE LET info == share_info[i][1]
            IN
       IF ~verify_share(m.share[1], m.share[2], info.g, info.c, info.p)
       THEN /\ Returns(i, mb)
            /\ results' = res
            /\ UNCHANGED <<reconstruct_send, senders_shares, sent_on>>
       ELSE LET acc == [senders_shares[i] EXCEPT
                           ![m.id] = Some([share |-> m.share, rnd |-> m.rnd])]
            IN /\ mailbox' = mb
               /\ UNCHANGED ppc
               /\ IF Cardinality(Keys(acc)) >= info.t
                  THEN /\ \E o \in ValueOrders(acc) :
                            results' =
                                Deliver(i, res,
                                        reconstruct(ValuesIn(acc, o), info.q), acc)
                       /\ sent_on' =
                            IF reconstruct_send[i] # None
                            THEN [sent_on EXCEPT ![reconstruct_send[i][1]] = @ + 1]
                            ELSE [sent_on EXCEPT ![Nowhere] = 1]
                       /\ reconstruct_send' = [reconstruct_send EXCEPT ![i] = None]
                       /\ senders_shares' = Cleared(i, acc)
                  ELSE /\ senders_shares' = [senders_shares EXCEPT ![i] = acc]
                       /\ results' = res
                       /\ UNCHANGED <<reconstruct_send, sent_on>>
    /\ UNCHANGED <<senders, share_info>>

HandleReconstruct_RecordFirst(i, m, mb, res) ==
    /\ ppc[i] = "running"
    /\ m.type = "Reconstruct"
    /\ reconstruct_send' = [reconstruct_send EXCEPT ![i] = Some(m.ch)]
    /\ mailbox' = IF share_info[i] # None
                  THEN broadcast(i, mb,
                           ReconstructShare(i, share_info[i][1].share, m.ch))
                  ELSE mb
    /\ results' = res
    /\ UNCHANGED <<ppc, senders, share_info, senders_shares, sent_on>>

HandleReconstruct(i, m, mb, res) ==
    /\ ppc[i] = "running"
    /\ m.type = "Reconstruct"
    /\ IF share_info[i] # None
       THEN /\ reconstruct_send' = [reconstruct_send EXCEPT ![i] = Some(m.ch)]
            /\ mailbox' = broadcast(i, mb,
                              ReconstructShare(i, share_info[i][1].share, m.ch))
       ELSE /\ mailbox' = mb
            /\ UNCHANGED reconstruct_send
    /\ results' = res
    /\ UNCHANGED <<ppc, senders, share_info, senders_shares, sent_on>>

(***************************************************************************)
(* One player under an arbitrary environment: the dealer, the driver and   *)
(* the peers may send it any message in any order; the peers are the       *)
(* mailboxes its broadcasts go to.  A step is one message sent to the      *)
(* player and handled by it: its mailbox is first-in first-out with one    *)
(* reader, so the player sees the messages one at a time in the order they *)
(* were sent.  The peers and the requesters take what is sent to them      *)
(* before the next step: their mailboxes and the result channels hold what *)
(* the last step sent.                                                     *)
(***************************************************************************)
Tested == CHOOSE i \in Players : \A j \in Players : i <= j

Peers == Players \ {Tested}

\* a field in which the x-coordinates 1..MaxPlayers are nonzero
EnvField == CHOOSE f \in FieldParams : f.q > MaxPlayers

\* two dealings of threshold 2 over that field
PolyA == <<1, 2>>

PolyB == <<2, 2>>

SharesOf(poly) == gen_shares(poly, MaxPlayers, EnvField.q)

\* what the dealer hands to player x for the dealing of poly
InfoOf(poly, x) ==
    ShareInfo(SharesOf(poly)[x], EnvField.g, gen_c(poly, EnvField.g, EnvField.p),
              EnvField.p, EnvField.q, Len(poly))

\* the share of one dealing with the commitments of the other
BadInfo(x) == [InfoOf(PolyA, x) EXCEPT !.share = SharesOf(PolyB)[x]]

\* the messages of the environment
EnvInfos == {InfoOf(PolyA, Tested), InfoOf(PolyB, Tested), BadInfo(Tested)}

EnvShares(rnds) ==
    {ReconstructShare(id, SharesOf(poly)[id], r) :
        id \in Peers, poly \in {PolyA, PolyB}, r \in rnds}

Taken == [j \in Players |-> <<>>]

Received == [ch \in Channels |-> <<>>]

EnvInit ==
    /\ ppc = [i \in Players |-> "running"]
    /\ mailbox = Taken
    /\ senders = [i \in Players |-> NoEntries]
    /\ share_info = [i \in Players |-> None]
    /\ reconstruct_send = [i \in Players |-> None]
    /\ senders_shares = [i \in Players |-> NoEntries]
    /\ results = Received
    /\ sent_on = [ch \in Channels \cup {Nowhere} |-> 0]
    /\ round = 0
    /\ trig = 0
    /\ MainIdle
    /\ fld = EnvField
    /\ a = <<>>
    /\ n = MaxPlayers
    /\ shares = <<>>
    /\ c = <<>>
    /\ checked = None
    /\ picked = <<>>
    /\ out = None
    /\ dealer = None
    /\ vpc = "idle"

EnvPing ==
    /\ \E j \in Peers : HandlePing(Tested, Ping(j), Taken, Received)
    /\ UNCHANGED <<round, trig, vvars, mvars>>

EnvRegSender ==
    /\ \E id \in Peers, to \in Peers :
          HandleRegSender(Tested, RegSender(id, to), Taken, Received)
    /\ UNCHANGED <<round, trig, vvars, mvars>>

EnvRegShare ==
    /\ \E info \in EnvInfos :
          HandleRegShare(Tested, RegShare(info), Taken, Received)
    /\ UNCHANGED <<round, trig, vvars, mvars>>

\* a share a peer broadcasts for one of the requests made so far: it may
\* reach the player before the player's own trigger for that request, or
\* after a later request
EnvReconstructShare ==
    /\ \E m \in EnvShares(1..round) :
          HandleReconstructShare(Tested, m, Taken, Received)
    /\ UNCHANGED <<round, trig, vvars, mvars>>

\* the driver makes a reconstruction request, with a fresh result channel
\* of its own, and starts sending the triggers
EnvNewRound ==
    /\ round < MaxRounds
    /\ round' = round + 1
    /\ UNCHANGED <<ppc, mailbox, senders, share_info, reconstruct_send,
                   senders_shares, results, trig, sent_on>>
    /\ UNCHANGED <<vvars, mvars>>

\* the player is sent the trigger of the next request
EnvReconstruct ==
    /\ trig < round
    /\ trig' = trig + 1
    /\ HandleReconstruct(Tested, Reconstruct(trig + 1), Taken, Received)
    /\ UNCHANGED <<round, vvars, mvars>>

Next ==
    \/ EnvPing
    \/ EnvRegSender
    \/ EnvRegShare
    \/ EnvReconstructShare
    \/ EnvNewRound
    \/ EnvReconstruct

Spec == EnvInit /\ [][Next]_vars

(***************************************************************************)
(* The same player when its peers may stop: a peer that returns from start *)
(* drops its receiver, and a send to it fails from then on.                *)
(***************************************************************************)
EnvPeerExit ==
    /\ \E j \in Peers : ppc[j] = "running" /\ Returns(j, Taken)
    /\ results' = Received
    /\ UNCHANGED <<senders, share_info, reconstruct_send, senders_shares,
                   sent_on, round, trig>>
    /\ UNCHANGED <<vvars, mvars>>

BroadcastNext ==
    \/ EnvRegSender
    \/ EnvRegShare
    \/ EnvNewRound
    \/ EnvReconstruct
    \/ EnvPeerExit

\* the player may already hold a share and one share of a peer
RegistryInit ==
    /\ ppc = [i \in Players |-> "running"]
    /\ mailbox = Taken
    /\ senders = [i \in Players |-> NoEntries]
    /\ \E held \in {None, Some(InfoOf(PolyA, Tested))} :
          /\ share_info = [i \in Players |-> IF i = Tested THEN held ELSE None]
          /\ \E acc \in {NoEntries} \cup
                    {[NoEntries EXCEPT
                         ![id] = Some([share |-> SharesOf(PolyA)[id], rnd |-> 0])] :
                       id \in IF held = None THEN {} ELSE Peers} :
                senders_shares =
                    [i \in Players |-> IF i = Tested THEN acc ELSE NoEntries]
    /\ reconstruct_send = [i \in Players |-> None]
    /\ results = Received
    /\ sent_on = [ch \in Channels \cup {Nowhere} |-> 0]
    /\ round = 0
    /\ trig = 0
    /\ MainIdle
    /\ fld = EnvField
    /\ a = <<>>
    /\ n = MaxPlayers
    /\ shares = <<>>
    /\ c = <<>>
    /\ checked = None
    /\ picked = <<>>
    /\ out = None
    /\ dealer = None
    /\ vpc = "idle"

BroadcastSpec == RegistryInit /\ [][BroadcastNext]_vars

\* the same without peers that stop
RegistryNext ==
    \/ EnvRegSender
    \/ EnvRegShare
    \/ EnvNewRound
    \/ EnvReconstruct

RegistrySpec == RegistryInit /\ [][RegistryNext]_vars

(***************************************************************************)
(* The same player when it is sent shares and triggers only: its registry  *)
(* stays empty and its broadcasts reach nobody.                            *)
(***************************************************************************)
AccumulateNext ==
    \/ EnvRegShare
    \/ EnvReconstructShare
    \/ EnvNewRound
    \/ EnvReconstruct

AccumulateSpec == EnvInit /\ [][AccumulateNext]_vars

(***************************************************************************)
(* The same player when the dealings it is sent differ in their threshold: *)
(* besides the two dealings of threshold 2 there is one of threshold 1,    *)
(* whose polynomial is its constant term alone.                            *)
(***************************************************************************)
PolyLow == <<1>>

ThresholdInfos == EnvInfos \cup {InfoOf(PolyLow, Tested)}

ThresholdShares(rnds) ==
    EnvShares(rnds) \cup
        {ReconstructShare(id, SharesOf(PolyLow)[id], r) :
            id \in Peers, r \in rnds}

EnvRegShareAnyT ==
    /\ \E info \in ThresholdInfos :
          HandleRegShare(Tested, RegShare(info), Taken, Received)
    /\ UNCHANGED <<round, trig, vvars, mvars>>

EnvReconstructShareAnyT ==
    /\ \E m \in ThresholdShares(1..round) :
          HandleReconstructShare(Tested, m, Taken, Received)
    /\ UNCHANGED <<round, trig, vvars, mvars>>

ThresholdNext ==
    \/ EnvRegShareAnyT
    \/ EnvReconstructShareAnyT
    \/ EnvNewRound
    \/ EnvReconstruct

ThresholdSpec == EnvInit /\ [][ThresholdNext]_vars

(***************************************************************************)
(* main.rs: the driver and the players' threads.  n players are asked for, *)
(* the threshold is Len(a) and the secret a[1].                            *)
(***************************************************************************)
\* the channel main creates for its request
MainChannel == CHOOSE ch \in Channels : \A other \in Channels : ch <= other

\* Sender::send by main
SendTo(to, msg) ==
    [mailbox EXCEPT ![to] = IF ppc[to] = "running" THEN Append(@, msg) ELSE @]

DriverInit ==
    /\ NoPlayers
    /\ mpc = "dealer"
    /\ mid = 0
    /\ mk = 0
    /\ registered = <<>>
    /\ fld = EnvField
    /\ n \in 1..MaxPlayers
    /\ \E t \in 1..n, secret \in 0..(fld.q - 1) :
          a = [k \in 1..t |-> IF k = 1 THEN secret ELSE 0]
    /\ shares = <<>>
    /\ c = <<>>
    /\ checked = None
    /\ picked = <<>>
    /\ out = None
    /\ dealer = None
    /\ vpc = "idle"

\* let dealer = Dealer::new(n, 3, 1234)
MainDealerNew ==
    /\ mpc = "dealer"
    /\ \E r \in 0..(fld.q - 1) :
          LET coef == dealer_poly(a[1], r, Len(a))
          IN dealer' = [p |-> fld.p, q |-> fld.q, g |-> fld.g, a |-> coef,
                        shares |-> gen_shares(coef, n, fld.q),
                        c |-> gen_c(coef, fld.g, fld.p)]
    /\ mpc' = "new"
    /\ mid' = 1
    /\ UNCHANGED <<mk, registered, pvars>>
    /\ UNCHANGED <<fld, a, n, shares, c, checked, picked, out, vpc>>

\* let (sender, handler) = Player::new(id)
MainPlayerNew ==
    /\ mpc = "new"
    /\ ppc' = [ppc EXCEPT ![mid] = "running"]
    /\ mpc' = "reg_new"
    /\ mk' = 1
    /\ UNCHANGED <<mid, registered, vvars>>
    /\ UNCHANGED <<mailbox, senders, share_info, reconstruct_send, senders_shares,
                   results, round, trig, sent_on>>

\* other_sender.send(RegSender(id, sender.clone()))
MainRegNew ==
    /\ mpc = "reg_new"
    /\ mk <= Len(registered)
    /\ mailbox' = SendTo(registered[mk], RegSender(mid, mid))
    /\ mpc' = "reg_other"
    /\ UNCHANGED <<mid, mk, registered, vvars>>
    /\ UNCHANGED <<ppc, senders, share_info, reconstruct_send, senders_shares,
                   results, round, trig, sent_on>>

\* sender.send(RegSender(other_id, other_sender.clone()))
MainRegOther ==
    /\ mpc = "reg_other"
    /\ mailbox' = SendTo(mid, RegSender(registered[mk], registered[mk]))
    /\ mpc' = "reg_new"
    /\ mk' = mk + 1
    /\ UNCHANGED <<mid, registered, vvars>>
    /\ UNCHANGED <<ppc, senders, share_info, reconstruct_send, senders_shares,
                   results, round, trig, sent_on>>

\* registered.push((id, sender, handler)), and the next id
MainPush ==
    /\ mpc = "reg_new"
    /\ mk > Len(registered)
    /\ registered' = Append(registered, mid)
    /\ IF mid < n
       THEN mpc' = "new" /\ mid' = mid + 1 /\ mk' = 1
       ELSE mpc' = "propagate" /\ mid' = mid /\ mk' = 1
    /\ UNCHANGED <<vvars, pvars>>

\* dealer.propagate(senders): RegShare with its own share to every player
MainPropagate ==
    /\ mpc = "propagate"
    /\ mailbox' =
          SendTo(registered[mk],
                 RegShare(ShareInfo(dealer.shares[mk], dealer.g, dealer.c,
                                    dealer.p, dealer.q, Len(dealer.a))))
    /\ IF mk < Len(registered)
       THEN mpc' = mpc /\ mk' = mk + 1
       ELSE mpc' = "trigger" /\ mk' = 1
    /\ UNCHANGED <<mid, registered, vvars>>
    /\ UNCHANGED <<ppc, senders, share_info, reconstruct_send, senders_shares,
                   results, round, trig, sent_on>>

\* s.send(RPC::Reconstruct(sender.clone())), for every player
MainReconstruct ==
    /\ mpc = "trigger"
    /\ mailbox' = SendTo(registered[mk], Reconstruct(MainChannel))
    /\ IF mk < Len(registered)
       THEN mpc' = mpc /\ mk' = mk + 1
       ELSE mpc' = "recv" /\ mk' = 1
    /\ UNCHANGED <<mid, registered, vvars>>
    /\ UNCHANGED <<ppc, senders, share_info, reconstruct_send, senders_shares,
                   results, round, trig, sent_on>>

\* receiver.recv(): blocks until a value is there; main then waits on the
\* players' threads
MainRecv ==
    /\ mpc = "recv"
    /\ results[MainChannel] # <<>>
    /\ out' = Some(Head(results[MainChannel]).val)
    /\ results' = [results EXCEPT ![MainChannel] = Tail(@)]
    /\ mpc' = "join"
    /\ UNCHANGED <<mid, mk, registered>>
    /\ UNCHANGED <<fld, a, n, shares, c, checked, picked, dealer, vpc>>
    /\ UNCHANGED <<ppc, mailbox, senders, share_info, reconstruct_send,
                   senders_shares, round, trig, sent_on>>

Main ==
    \/ MainDealerNew
    \/ MainPlayerNew
    \/ MainRegNew
    \/ MainRegOther
    \/ MainPush
    \/ MainPropagate
    \/ MainReconstruct
    \/ MainRecv

\* while let Ok(rpc) = self.rx.recv()
Recv(i) == ppc[i] = "running" /\ mailbox[i] # <<>>

Rest(i) == [mailbox EXCEPT ![i] = Tail(@)]

PlayerRegSender(i) ==
    /\ Recv(i)
    /\ HandleRegSender(i, Head(mailbox[i]), Rest(i), results)
    /\ UNCHANGED <<round, trig, vvars, mvars>>

PlayerRegShare(i) ==
    /\ Recv(i)
    /\ HandleRegShare(i, Head(mailbox[i]), Rest(i), results)
    /\ UNCHANGED <<round, trig, vvars, mvars>>

PlayerReconstructShare(i) ==
    /\ Recv(i)
    /\ HandleReconstructShare(i, Head(mailbox[i]), Rest(i), results)
    /\ UNCHANGED <<round, trig, vvars, mvars>>

PlayerReconstruct(i) ==
    /\ Recv(i)
    /\ HandleReconstruct(i, Head(mailbox[i]), Rest(i), results)
    /\ UNCHANGED <<round, trig, vvars, mvars>>

Player(i) ==
    \/ PlayerRegSender(i)
    \/ PlayerRegShare(i)
    \/ PlayerReconstructShare(i)
    \/ PlayerReconstruct(i)

DriverNext ==
    \/ MainDealerNew
    \/ MainPlayerNew
    \/ MainRegNew
    \/ MainRegOther
    \/ MainPush
    \/ MainPropagate
    \/ MainReconstruct
    \/ MainRecv
    \/ \E i \in Players : PlayerRegSender(i)
    \/ \E i \in Players : PlayerRegShare(i)
    \/ \E i \in Players : PlayerReconstructShare(i)
    \/ \E i \in Players : PlayerReconstruct(i)

DriverSpec == DriverInit /\ [][DriverNext]_vars

\* main holds a Sender<RPC> of player i: the `sender` of the player it is
\* registering, and the senders in `registered`, which it keeps while it
\* waits in the joins
MainHolds(i) ==
    \/ mpc \in {"reg_new", "reg_other"} /\ mid = i
    \/ \E k \in DOMAIN registered : registered[k] = i

\* the running players that hold a Sender<RPC> of player i, in their
\* registry or in a RegSender still in their mailbox
PlayersHolding(i) ==
    {j \in Players :
        /\ ppc[j] = "running"
        /\ \/ \E id \in Players : senders[j][id] = Some(i)
           \/ \E k \in DOMAIN mailbox[j] :
                 mailbox[j][k].type = "RegSender" /\ mailbox[j][k].to = i}

\* self.rx.recv() returns Err: the loop of Player::start ends
MailboxClosed(i) ==
    mailbox[i] = <<>> /\ ~MainHolds(i) /\ PlayersHolding(i) = {}

\* A player leaves its loop only by MailboxClosed and main passes
\* handle.join() only for a player that has left it; neither is ever the
\* case here, so the two steps are not among the actions of the driver.
NeverClosed ==
    \A i \in Players : ppc[i] = "running" => ~MailboxClosed(i)

\* every thread that can take a step eventually takes one
FairDriverSpec ==
    /\ DriverSpec
    /\ WF_vars(Main)
    /\ \A i \in Players : WF_vars(Player(i))

(***************************************************************************)
(* The algorithms applied to inputs drawn from the bounded sets.           *)
(***************************************************************************)
VssInit ==
    /\ fld \in FieldParams
    /\ a \in Coefs(fld.q)
    /\ n \in Len(a)..MaxN
    /\ shares = <<>>
    /\ c = <<>>
    /\ checked = None
    /\ picked = <<>>
    /\ out = None
    /\ dealer = None
    /\ vpc = "input"
    /\ NoPlayers
    /\ MainIdle

DoGenerateShares ==
    /\ vpc = "input"
    /\ shares' = generate_shares(a, n, fld.q)
    /\ vpc' = "shares"
    /\ UNCHANGED <<fld, a, n, c, checked, picked, out, dealer>>
    /\ UNCHANGED <<pvars, mvars>>

DoGenerateCommitments ==
    /\ vpc = "shares"
    /\ c' = generate_commitments(a, fld.g, fld.p)
    /\ vpc' = "commitments"
    /\ UNCHANGED <<fld, a, n, shares, checked, picked, out, dealer>>
    /\ UNCHANGED <<pvars, mvars>>

DoVerifyShare ==
    /\ vpc = "commitments"
    /\ \E k \in 1..Len(shares) :
          checked' = [x |-> shares[k][1], y |-> shares[k][2],
                      ok |-> verify_share(shares[k][1], shares[k][2],
                                          fld.g, c, fld.p)]
    /\ vpc' = "verified"
    /\ UNCHANGED <<fld, a, n, shares, c, picked, out, dealer>>
    /\ UNCHANGED <<pvars, mvars>>

\* sequences of cnt pairwise different indices into a list of length len
Picks(len, cnt) ==
    {s \in [1..cnt -> 1..len] : \A i, j \in 1..cnt : i # j => s[i] # s[j]}

DoReconstruct ==
    /\ vpc = "shares"
    /\ \E idx \in Picks(Len(shares), Len(a)) :
          /\ picked' = [k \in 1..Len(a) |-> shares[idx[k]]]
          /\ out' = reconstruct(picked', fld.q)
    /\ vpc' = "reconstructed"
    /\ UNCHANGED <<fld, a, n, shares, c, checked, dealer>>
    /\ UNCHANGED <<pvars, mvars>>

\* Dealer::new(n, t, secret) with n, t = Len(a), secret = a[1] of the inputs
DealerNew ==
    /\ vpc = "input"
    /\ \E r \in 0..(fld.q - 1) :
          LET coef == dealer_poly(a[1], r, Len(a))
          IN dealer' = [p |-> fld.p, q |-> fld.q, g |-> fld.g, a |-> coef,
                        shares |-> gen_shares(coef, n, fld.q),
                        c |-> gen_c(coef, fld.g, fld.p)]
    /\ vpc' = "dealt"
    /\ UNCHANGED <<fld, a, n, shares, c, checked, picked, out>>
    /\ UNCHANGED <<pvars, mvars>>

VssNext ==
    \/ DoGenerateShares
    \/ DoGenerateCommitments
    \/ DoVerifyShare
    \/ DoReconstruct
    \/ DealerNew

VssSpec == VssInit /\ [][VssNext]_vars

(***************************************************************************)
(* verify_share applied to a generated share whose y was replaced: y is a  *)
(* BigUint, so the replacement may be any natural number, below q or not.  *)
(***************************************************************************)
Alterations(y, q) == (0..(2 * q - 1)) \ {y}

DoVerifyAltered ==
    /\ vpc = "commitments"
    /\ \E k \in 1..Len(shares) :
          \E y2 \in Alterations(shares[k][2], fld.q) :
             checked' = [x |-> shares[k][1], y |-> y2,
                         ok |-> verify_share(shares[k][1], y2, fld.g, c, fld.p)]
    /\ vpc' = "altered"
    /\ UNCHANGED <<fld, a, n, shares, c, picked, out, dealer>>
    /\ UNCHANGED <<pvars, mvars>>

AlteredNext ==
    \/ DoGenerateShares
    \/ DoGenerateCommitments
    \/ DoVerifyAltered

AlteredSpec == VssInit /\ [][AlteredNext]_vars

(***************************************************************************)
(* generate_shares and reconstruct alone.  Of the field they are handed q  *)
(* only, so one field is taken for each q.                                 *)
(***************************************************************************)
FieldOf(q) == CHOOSE f \in FieldParams : f.q = q

ReconstructInit ==
    /\ VssInit
    /\ fld \in {FieldOf(q) : q \in {f.q : f \in FieldParams}}

ReconstructNext ==
    \/ DoGenerateShares
    \/ DoReconstruct

ReconstructSpec == ReconstructInit /\ [][ReconstructNext]_vars

(***************************************************************************)
(* div_mod_p applied to arguments drawn from the bounded sets: a numerator *)
(* and a divisor of either sign and a modulus above 1.                     *)
(***************************************************************************)
DivArgs == (-MaxDiv..MaxDiv) \X (-MaxDiv..MaxDiv) \X (2..MaxDiv)

DivInit ==
    /\ picked \in DivArgs
    /\ vpc = "args"
    /\ out = None
    /\ fld = EnvField
    /\ a = <<>>
    /\ n = 0
    /\ shares = <<>>
    /\ c = <<>>
    /\ checked = None
    /\ dealer = None
    /\ NoPlayers
    /\ MainIdle

DoDivModP ==
    /\ vpc = "args"
    /\ out' = div_mod_p(picked[1], picked[2], picked[3])
    /\ vpc' = "divided"
    /\ UNCHANGED <<fld, a, n, shares, c, checked, picked, dealer>>
    /\ UNCHANGED <<pvars, mvars>>

DivNext == DoDivModP

DivSpec == DivInit /\ [][DivNext]_vars

(***************************************************************************)
(* Properties of the pure algorithms, checked under VssSpec.               *)
(***************************************************************************)
Threshold == Len(a)

Secret == a[1]

\* g generates the subgroup of prime order q of (Z/pZ)*
OrderQ(f) == f.g # 1 /\ ModPow(f.g, f.q, f.p) = 1

(* C1 as stated: for any n >= t >= 1 and prime q, reconstruct over any t
   distinct shares of generate_shares(a, n, q) returns the secret a_0. *)
C1_AnyN == vpc = "reconstructed" => out = Secret

(* C1 amended: for any q >= n >= t >= 1 (the x-coordinates 1..n are then
   pairwise different modulo q), reconstruct over any t distinct shares of
   generate_shares(a, n, q), in any order, returns the secret a_0; so any two
   t-subsets of one dealing reconstruct the same value. *)
C1_ThresholdSufficiency ==
    (vpc = "reconstructed" /\ n <= fld.q) => out = Secret

C1_Witness ==
    /\ vpc = "reconstructed"
    /\ n <= fld.q
    /\ Threshold = 3
    /\ n > Threshold
    /\ picked[1][1] > picked[2][1]
    /\ Secret # 0
    /\ a[3] # 0
    /\ out = Secret

(* C2: for any n >= t >= 1 and secret s < q, with p prime, q | (p-1) and g of
   order q mod p, every share (x, y) of generate_shares(a, n, q) passes
   verify_share(x, y, g, generate_commitments(a, g, p), p). *)
C2_ShareVerification ==
    (vpc = "verified" /\ OrderQ(fld)) => checked.ok

C2_Witness ==
    /\ vpc = "verified"
    /\ OrderQ(fld)
    /\ Threshold = 3
    /\ a[2] # 0
    /\ a[3] # 0
    /\ checked.x = 3
    /\ eval_poly_at(a, checked.x) >= fld.q
    /\ checked.ok

\* the shares Dealer::new would issue for secret s2 and random coefficient r2
DealingOf(s2, r2) == gen_shares(dealer_poly(s2, r2, Threshold), n, fld.q)

(* C3: for a dealing built by Dealer::new(n, t, secret), every set of t-1
   issued shares is also produced by Dealer::new for a different secret (with
   some coefficient it can draw), so t-1 shares never determine the secret.
   Stated for n < q, where no issued x-coordinate is congruent to 0. *)
C3_ThresholdNecessity ==
    (vpc = "dealt" /\ n < fld.q) =>
        \A S \in SUBSET (1..n) :
            Cardinality(S) = Threshold - 1 =>
                \E s2 \in (0..(fld.q - 1)) \ {Secret}, r2 \in 0..(fld.q - 1) :
                    \A k \in S : DealingOf(s2, r2)[k] = dealer.shares[k]

RECURSIVE Gcd(_, _)
Gcd(x, y) == IF y = 0 THEN Abs(x) ELSE Gcd(y, x % Abs(y))

(* C15: for a modulus m > 1 and a divisor b of either sign coprime to m,
   div_mod_p(x, b, m) times b is congruent to x modulo m, and for x = 1 the
   result lies in [0, m) and its product with b is 1 modulo m.  Checked
   under DivSpec. *)
C15_ModularInverse ==
    (vpc = "divided" /\ Gcd(picked[2], picked[3]) = 1)
    => LET x == picked[1]
           b == picked[2]
           m == picked[3]
       IN /\ (out * b - x) % m = 0
          /\ x = 1 => (out \in 0..(m - 1) /\ (b * out) % m = 1)

C15_Witness ==
    /\ vpc = "divided"
    /\ picked[1] = 1
    /\ picked[2] < -picked[3]
    /\ Gcd(picked[2], picked[3]) = 1
    /\ picked[3] > 2
    /\ out > 1
    /\ (picked[2] * out) % picked[3] = 1

\* Horner's rule for coef[k] + coef[k+1] x + ..
RECURSIVE Horner(_, _, _)
Horner(coef, x, k) ==
    IF k > Len(coef) THEN 0 ELSE coef[k] + x * Horner(coef, x, k + 1)

(* C16: generate_shares(a, n, q) is a list of n shares whose i-th element is
   (i, P(i) mod q) for the polynomial P with coefficients a, so that the
   x-coordinates are 1..n in order, pairwise different and never 0, and every
   y is in [0, q).  Checked under AlteredSpec. *)
C16_GenerateShares ==
    vpc \in {"shares", "commitments", "altered"}
    => /\ Len(shares) = n
       /\ \A i \in 1..n :
             /\ shares[i] = <<i, Horner(a, i, 1) % fld.q>>
             /\ shares[i][1] # 0
             /\ shares[i][2] \in 0..(fld.q - 1)
       /\ \A i, j \in 1..n : i # j => shares[i][1] # shares[j][1]

C16_Witness ==
    /\ vpc = "shares"
    /\ n = MaxN
    /\ Len(a) = MaxT
    /\ Len(shares) = MaxN
    /\ \E i \in 1..n : Horner(a, i, 1) > fld.q /\ shares[i][2] > 0

\* the y the dealing gave to the share that was altered
GeneratedY == shares[checked.x][2]

(* C17 as stated: with g of order q, a generated share whose y was replaced
   by any other value fails verify_share.  Checked under AlteredSpec. *)
C17_AnyAlteration ==
    (vpc = "altered" /\ OrderQ(fld)) => ~checked.ok

(* C17 amended: with g of order q, a generated share whose y was replaced
   fails verify_share exactly if the replacement is not congruent to y
   modulo q; a replacement y + k*q passes. *)
C17_CommitmentSoundness ==
    (vpc = "altered" /\ OrderQ(fld))
    => (checked.ok <=> (checked.y - GeneratedY) % fld.q = 0)

C17_Witness ==
    /\ vpc = "altered"
    /\ OrderQ(fld)
    /\ Threshold = MaxT
    /\ checked.y < fld.q
    /\ checked.y # GeneratedY
    /\ ~checked.ok

\* the shares of shs in the order in which generate_shares issued them,
\* which is the order of their x-coordinates
ByX(shs) ==
    LET Picked(sh) == \E k \in 1..Len(shs) : shs[k] = sh
    IN SelectSeq(shares, Picked)

(* C18: in whatever order a list of shares is handed to reconstruct, the
   value is the one reconstruct returns for the same shares in the order of
   their x-coordinates; every order of every choice of shares is handed to
   it, so all orders of the same shares give the same value, and the value a
   player computes from the values of its accumulator does not depend on the
   order in which they are taken or were received.  Checked under
   ReconstructSpec. *)
C18_OrderInsensitive ==
    vpc = "reconstructed" => out = reconstruct(ByX(picked), fld.q)

C18_Witness ==
    /\ vpc = "reconstructed"
    /\ Len(picked) = MaxT
    /\ \A k \in 1..(Len(picked) - 1) : picked[k][1] > picked[k + 1][1]
    /\ \A k \in 1..Len(picked) : picked[k][2] # 0
    /\ out # 0

(***************************************************************************)
(* Properties of one player under its environment.  What the code gets     *)
(* wrong is shown under Spec, where every kind of message is sent; what it *)
(* gets right is checked under the specification that sends the messages   *)
(* the property is about.                                                  *)
(***************************************************************************)
Verifies(share, info) == verify_share(share[1], share[2], info.g, info.c, info.p)

\* the player's own state and everything it sends
PlayerState ==
    <<ppc, mailbox, senders, share_info, reconstruct_send, senders_shares,
      results, sent_on>>

\* the accumulator with the share of m inserted
Inserted(m) ==
    [senders_shares[Tested] EXCEPT
        ![m.id] = Some([share |-> m.share, rnd |-> m.rnd])]

(* C4: a player holding ShareInfo that handles a ReconstructShare whose share
   fails verify_share leaves the accumulator unchanged and keeps running, so
   that later valid shares are still accumulated.
   Checked under Spec. *)
C4_InvalidPeerShareRecoverable ==
    [][\A m \in EnvShares(1..MaxRounds) :
          (/\ share_info[Tested] # None
           /\ ~Verifies(m.share, share_info[Tested][1])
           /\ HandleReconstructShare(Tested, m, Taken, Received))
          => /\ senders_shares'[Tested] = senders_shares[Tested]
             /\ ppc'[Tested] = "running"]_vars

(* C5: when a round completes the accumulator is empty, and once every
   earlier request has been answered the value delivered for a later request
   is computed from no share that was broadcast for an earlier request.
   Checked under Spec. *)
C5_RoundIsolation ==
    \A ch \in Channels : \A k \in DOMAIN results[ch] :
        (\A before \in 1..(ch - 1) : sent_on[before] = 1)
        => /\ senders_shares[results[ch][k].by] = NoEntries
           /\ \A id \in Keys(results[ch][k].of) :
                 results[ch][k].of[id][1].rnd >= ch

(* C6: whenever the accumulator reaches t entries while a result channel is
   pending, the player sends exactly one value on that channel and none on
   any other, the value is reconstruct() of the accumulated shares, the
   pending channel is consumed and the accumulator is cleared in the same
   step; no channel ever gets a second value.
   Checked under AccumulateSpec. *)
C6_ExactlyOnceDelivery ==
    /\ [](\A ch \in Channels : sent_on[ch] <= 1)
    /\ [][\A m \in EnvShares(1..MaxRounds) :
            (/\ share_info[Tested] # None
             /\ Verifies(m.share, share_info[Tested][1])
             /\ Cardinality(Keys(Inserted(m))) >= share_info[Tested][1].t
             /\ reconstruct_send[Tested] # None
             /\ HandleReconstructShare(Tested, m, Taken, Received))
            => LET ch == reconstruct_send[Tested][1]
               IN /\ Len(results'[ch]) = 1
                  /\ \A other \in Channels \ {ch} : results'[other] = <<>>
                  /\ results'[ch][1].val \in
                        {reconstruct(ValuesIn(Inserted(m), o),
                                     share_info[Tested][1].q) :
                            o \in ValueOrders(Inserted(m))}
                  /\ sent_on'[ch] = sent_on[ch] + 1
                  /\ reconstruct_send'[Tested] = None
                  /\ senders_shares'[Tested] = NoEntries]_vars

C6_Witness ==
    \E ch \in Channels :
        /\ Len(results[ch]) = 1
        /\ results[ch][1].val = PolyA[1]
        /\ results[ch][1].by = Tested
        /\ Cardinality(Keys(results[ch][1].of)) = Len(PolyA)
        /\ sent_on[ch] = 1
        /\ reconstruct_send[Tested] = None
        /\ senders_shares[Tested] = NoEntries

(* C8: a RegShare whose share fails verify_share against the (g, c, p) it
   carries stores no ShareInfo and ends the player, which from then on sends,
   accumulates and delivers nothing; a RegShare whose share verifies is
   stored and the player goes on.
   Checked under AccumulateSpec. *)
C8_InvalidOwnShareHalts ==
    /\ [][\A info \in EnvInfos :
            HandleRegShare(Tested, RegShare(info), Taken, Received)
            => IF Verifies(info.share, info)
               THEN /\ share_info'[Tested] = Some(info)
                    /\ ppc'[Tested] = "running"
               ELSE /\ share_info'[Tested] = share_info[Tested]
                    /\ ppc'[Tested] = "done"]_vars
    /\ [][ppc[Tested] = "done" => UNCHANGED PlayerState]_vars

C8_Witness ==
    /\ ppc[Tested] = "done"
    /\ share_info[Tested] = None
    /\ trig >= 1
    /\ round = MaxRounds

(* C9: a Reconstruct handled by a player without ShareInfo sends nothing,
   records no channel and leaves registry, ShareInfo and accumulator as they
   were; a player with ShareInfo records the channel and sends
   ReconstructShare(own id, own share) once for every registered peer id.
   Checked under RegistrySpec. *)
C9_ReconstructWithoutShare ==
    [][\A ch \in Channels :
          HandleReconstruct(Tested, Reconstruct(ch), Taken, Received)
          => IF share_info[Tested] = None
             THEN /\ mailbox' = Taken
                  /\ results' = Received
                  /\ UNCHANGED <<reconstruct_send, senders, share_info,
                                 senders_shares>>
             ELSE /\ reconstruct_send'[Tested] = Some(ch)
                  /\ \A j \in Players :
                        /\ Len(mailbox'[j]) =
                              Cardinality({id \in Players :
                                              senders[Tested][id] = Some(j)})
                        /\ \A k \in DOMAIN mailbox'[j] :
                              mailbox'[j][k] =
                                  ReconstructShare(Tested,
                                      share_info[Tested][1].share, ch)]_vars

C9_Witness ==
    /\ trig >= 1
    /\ share_info[Tested] = None
    /\ ppc[Tested] = "running"
    /\ Keys(senders[Tested]) = Peers
    /\ reconstruct_send[Tested] = None
    /\ mailbox = Taken

(* C10: every share in a player's accumulator passes verify_share against the
   (g, c, p) of the ShareInfo the player currently stores, and the
   accumulator is empty while the player holds no ShareInfo.
   Checked under Spec. *)
C10_AccumulatorVerified ==
    \A i \in Players :
        IF share_info[i] = None
        THEN senders_shares[i] = NoEntries
        ELSE \A id \in Keys(senders_shares[i]) :
                Verifies(senders_shares[i][id][1].share, share_info[i][1])

(* C19: when the accumulator reaches t while no result channel is recorded,
   nothing is sent on any result channel, the accumulator is cleared and
   still no channel is recorded; and every value that is sent was computed
   from at least t shares present in the accumulator at that moment, so a
   later Reconstruct is answered only once t further shares have come in.
   Checked under AccumulateSpec. *)
C19_DiscardWithoutChannel ==
    /\ [][\A m \in EnvShares(1..MaxRounds) :
            (/\ share_info[Tested] # None
             /\ Verifies(m.share, share_info[Tested][1])
             /\ Cardinality(Keys(Inserted(m))) >= share_info[Tested][1].t
             /\ reconstruct_send[Tested] = None
             /\ HandleReconstructShare(Tested, m, Taken, Received))
            => /\ results' = Received
               /\ \A ch \in Channels : sent_on'[ch] = sent_on[ch]
               /\ senders_shares'[Tested] = NoEntries
               /\ reconstruct_send'[Tested] = None]_vars
    /\ [](\A ch \in Channels : \A k \in DOMAIN results[ch] :
             Cardinality(Keys(results[ch][k].of))
                >= share_info[results[ch][k].by][1].t)

C19_Witness ==
    /\ sent_on[Nowhere] = 1
    /\ \A ch \in Channels : sent_on[ch] = 0
    /\ results = Received
    /\ ppc[Tested] = "running"
    /\ share_info[Tested] # None
    /\ senders_shares[Tested] = NoEntries
    /\ reconstruct_send[Tested] = None
    /\ trig = 0

(* C11: once a player has stored a ShareInfo, the stored share, g,
   commitments, p, q and t are the same after every step.
   Checked under Spec. *)
C11_ShareInfoWriteOnce ==
    [][\A i \in Players :
          share_info[i] # None => share_info'[i] = share_info[i]]_vars

\* the number of entries of player i's accumulator
Accumulated(i) == Cardinality(Keys(senders_shares[i]))

(* C21: after a player has handled any message, its accumulator holds
   strictly fewer entries than the threshold t of the ShareInfo it stores.
   Checked under ThresholdSpec. *)
C21_BoundedAccumulator ==
    \A i \in Players :
        share_info[i] # None => Accumulated(i) < share_info[i][1].t

(* C21, the consequence: every reconstruction a player runs is over exactly
   t shares, t being the threshold of the ShareInfo it stores at that
   moment.  Checked under ThresholdSpec. *)
C21_ReconstructsOverT ==
    [][\A m \in ThresholdShares(1..MaxRounds) :
          (/\ share_info[Tested] # None
           /\ Verifies(m.share, share_info[Tested][1])
           /\ Cardinality(Keys(Inserted(m))) >= share_info[Tested][1].t
           /\ HandleReconstructShare(Tested, m, Taken, Received))
          => Cardinality(Keys(Inserted(m))) = share_info[Tested][1].t]_vars

\* the sum of cnt over the set S
RECURSIVE SumOver(_, _)
SumOver(cnt, S) ==
    IF S = {} THEN 0
    ELSE LET j == CHOOSE k \in S : TRUE
         IN cnt[j] + SumOver(cnt, S \ {j})

(* C12: handling RegSender(id, to) makes the registry map id to that handle,
   overwriting an entry already there, and changes no other entry, ShareInfo
   or accumulator; a broadcast sends one message for each registered peer id
   and no more.
   Checked under RegistrySpec. *)
C12_IdempotentRegistration ==
    /\ [][\A id \in Peers, to \in Peers :
            HandleRegSender(Tested, RegSender(id, to), Taken, Received)
            => /\ senders'[Tested][id] = Some(to)
               /\ \A other \in Players \ {id} :
                     senders'[Tested][other] = senders[Tested][other]
               /\ UNCHANGED <<share_info, senders_shares>>]_vars
    /\ [][\A ch \in Channels :
            (/\ share_info[Tested] # None
             /\ HandleReconstruct(Tested, Reconstruct(ch), Taken, Received))
            => SumOver([j \in Players |-> Len(mailbox'[j])], Players)
                  = Cardinality(Keys(senders[Tested]))]_vars

C12_Witness ==
    LET last == CHOOSE j \in Peers : \A k \in Peers : k <= j
    IN /\ share_info[Tested] # None
       /\ \A id \in Peers : senders[Tested][id] = Some(last)
       /\ Len(mailbox[last]) = Cardinality(Peers)
       /\ \A j \in Players \ {last} : mailbox[j] = <<>>

(* C13: the environment keeps its senders to the player for ever, so the
   player's mailbox is never closed; a player that is in its message loop is
   still in it after every step.
   Checked under Spec. *)
C13_OnlyClosureTerminates ==
    [][ppc[Tested] = "running" => ppc'[Tested] = "running"]_vars

(***************************************************************************)
(* Properties of a broadcast to peers that may have stopped, checked under *)
(* BroadcastSpec.                                                          *)
(***************************************************************************)
\* the registry entries of the tested player that lead to peer j
EntriesFor(j) == {id \in Players : senders[Tested][id] = Some(j)}

(* C14: when a share-holding player handles Reconstruct, every peer still
   running gets one ReconstructShare(own id, own share) for each registry
   entry that leads to it, a peer that has stopped gets nothing, and the
   broadcasting player and its peers are as alive as before. *)
C14_BroadcastSurvivesClosedPeer ==
    [][\A ch \in Channels :
          (/\ share_info[Tested] # None
           /\ HandleReconstruct(Tested, Reconstruct(ch), Taken, Received))
          => /\ ppc' = ppc
             /\ ppc'[Tested] = "running"
             /\ \A j \in Players :
                   /\ Len(mailbox'[j]) =
                         IF ppc[j] = "running"
                         THEN Cardinality(EntriesFor(j)) ELSE 0
                   /\ \A k \in DOMAIN mailbox'[j] :
                         mailbox'[j][k] =
                             ReconstructShare(Tested,
                                 share_info[Tested][1].share, ch)]_vars

C14_Witness ==
    \E gone \in Peers, open \in Peers :
        /\ ppc[gone] = "done"
        /\ ppc[open] = "running"
        /\ ppc[Tested] = "running"
        /\ senders[Tested][gone] = Some(gone)
        /\ senders[Tested][open] = Some(open)
        /\ share_info[Tested] # None
        /\ reconstruct_send[Tested] = Some(trig)
        /\ Len(mailbox[open]) = 1
        /\ mailbox[gone] = <<>>

(***************************************************************************)
(* Properties of the driver's run, checked under FairDriverSpec.           *)
(***************************************************************************)
(* C20: once the driver has received its result and waits for the players,
   eventually the mailbox of every player is closed, which is what lets the
   players' threads end and the joins return.
   Checked under FairDriverSpec. *)
C20_WholeProcessTerminates ==
    (mpc = "join") ~> (\A i \in 1..n : MailboxClosed(i))

(* C7: after the driver has created the n players, registered them with each
   other, had every player sent its RegShare and sent Reconstruct to all of
   them, its result channel eventually receives a value, and every value
   sent on it is the dealt secret. *)
C7_DriverRound ==
    /\ <>(sent_on[MainChannel] > 0)
    /\ [](\A k \in DOMAIN results[MainChannel] :
              results[MainChannel][k].val = a[1])

====
